---- MODULE Spec2Model ----
(***************************************************************************)
(* Expedite: the Router / LeafRouter chain builder over an Express router. *)
(*                                                                         *)
(* The repository holds three copies of the builder: src/src/index.ts,     *)
(* src/unnamed/part_000 (the documented copy, whose wrappers catch and     *)
(* forward failures) and src/unnamed/part_001 (the legacy copy).  The      *)
(* variable `variant` fixes which copy a behaviour runs.                   *)
(*                                                                         *)
(* The dispatch engine is Express 4 (the typings the sources import):      *)
(* a handler that throws synchronously has the error forwarded by the      *)
(* engine; the promise returned by an async handler is ignored, so a       *)
(* rejection inside an async handler reaches nobody.                       *)
(*                                                                         *)
(* The specifications share the actions:                                   *)
(*   Spec          the builder API, every operation, MaxBuilders objects   *)
(*   SpecServe     one Router built with then / use / get / LeafRouter     *)
(*                 operations, exported, mounted in an app and sent one    *)
(*                 request (ServeBuilders objects)                         *)
(*   SpecServeLive SpecServe with an engine that does not stall            *)
(*   SpecHello     the README endpoint get("/:slug").then(marshalParams)   *)
(*                 .return, served (HelloBuilders objects)                 *)
(*   SpecMount     Routers mounted in Routers with use, served             *)
(*                 (MountBuilders objects)                                 *)
(*   SpecPair      two requests in flight at once (PairBuilders objects)   *)
(*   SpecMarshal   the three marshal steps applied to a request            *)
(*   SpecCommon    a Router built with the operations all three copies     *)
(*                 have, served (CommonBuilders objects)                   *)
(*   SpecForest    Routers made, consumed and mounted in each other,       *)
(*                 failing calls included (ForestBuilders objects)         *)
(***************************************************************************)
EXTENDS Integers, Sequences, FiniteSets, TLC

\* ---------------------------------------------------------------- bounds
\* builder objects (Routers and LeafRouters together) a behaviour creates
MaxBuilders == 3
ServeBuilders == 4
HelloBuilders == 3
MountBuilders == 5
PairBuilders == 3
CommonBuilders == 4
ForestBuilders == 5

\* ------------------------------------------------------------ value sets
Variants == {"index", "part_000", "part_001"}

Method == {"get", "post", "put", "delete"}

\* user-supplied narrowing functions and the three marshal steps
UserFns == {"f1", "f2"}
MarshalFns == {"marshalParams", "marshalQuery", "marshalBody"}

\* user-supplied terminal functions (return / finish) and raw middleware
TermFns == {"slugOf"}
RawFns == {"mw"}

\* paths are sequences of segments; ":slug" is a path parameter
RoutePaths == {<<":slug">>}
SubPaths == {<< >>, <<"blog">>}

NoId == 0
Undefined == "undefined"

\* request facets: an object with the one key slug, or undefined
Vals == {"hello"}
Facet(def, slug) == [def |-> def, slug |-> slug]
NoFacet == Facet(FALSE, Undefined)
EmptyObj == Facet(TRUE, Undefined)
SlugObj(v) == Facet(TRUE, v)

\* descriptors: M.obj over the keys that must hold a string
SlugDesc == {"slug"}
Descriptors == {{}, SlugDesc}

\* the requests sent to the app
ReqMethods == {"get", "post"}
ReqPaths == {<< >>, <<"hello">>}
ReqQueries == {EmptyObj}
ReqBodies == {NoFacet}
MountPaths == {<< >>, <<"blog">>, <<"blog", "hello">>}

\* what a user-supplied function does with a request: it returns (or its
\* promise resolves), it throws synchronously, or its promise rejects
Behaviours == {"returns", "throws", "rejects"}

VARIABLES variant, cap, routers, leafs, stacks, exported, successes, last,
          app, req, marshalled, parked

vars == <<variant, cap, routers, leafs, stacks, exported, successes, last,
          app, req, marshalled, parked>>

\* ------------------------------------------------------------ Consumable

\* checkConsumed: TRUE when it returns, FALSE when it throws
\* a check that never throws
checkConsumed_Skipped(b) == TRUE

checkConsumed(b) == ~b.consumed

\* a consume that forgets to set the flag
consume_NoSet(b) == b

\* consume (after checkConsumed returned): the flag is set
consume(b) == [b EXCEPT !.consumed = TRUE]

\* -------------------------------------------------------------- builders

\* new Router(router): a fresh unconsumed Router on Express router `s`.
\* History kept beside the fields: the operation that returned it, the
\* Router that operation was called on, and the stack position of the layer
\* the operation registered.
NewRouterObj(s, op, parent, pos) ==
    [consumed |-> FALSE, router |-> s, op |-> op, parent |-> parent, pos |-> pos]

\* new LeafRouter(router, method, path, handlers).  History kept beside the
\* fields: `origin`, the LeafRouter the method factory returned at the head
\* of the lineage; `from`, the Router whose factory it was; `at`, the stack
\* position of the terminal registration this LeafRouter wrote (0: none).
NewLeafObj(s, m, p, hs, o, r) ==
    [consumed |-> FALSE, router |-> s, method |-> m, path |-> p,
     handlers |-> hs, origin |-> o, from |-> r, at |-> 0]

\* layers of an Express router's stack
ThenLayer(fn) ==
    [kind |-> "then", fn |-> fn, sub |-> NoId, path |-> << >>,
     method |-> "all", handlers |-> << >>, term |-> "none"]

RawLayer(p, fn) ==
    [kind |-> "raw", fn |-> fn, sub |-> NoId, path |-> p,
     method |-> "all", handlers |-> << >>, term |-> "none"]

MountLayer(p, s) ==
    [kind |-> "mount", fn |-> "router", sub |-> s, path |-> p,
     method |-> "all", handlers |-> << >>, term |-> "none"]

RouteLayer(m, p, hs, term, fn) ==
    [kind |-> "route", fn |-> fn, sub |-> NoId, path |-> p,
     method |-> m, handlers |-> hs, term |-> term]

RouterIds == 1..Len(routers)
LeafIds == 1..Len(leafs)

Room == Len(routers) + Len(leafs) < cap

\* a registration that lands in front of the entries already there
Push_Front(s, layer) == [stacks EXCEPT ![s] = <<layer>> \o @]

\* this.router.use(...) / this.router[method](...): the Express router puts
\* the new layer at the end of its stack
Push(s, layer) == [stacks EXCEPT ![s] = Append(@, layer)]

\* what the caller of a builder operation observes
Outcome(op, kind, id, ok, ret) ==
    [op |-> op, kind |-> kind, id |-> id,
     err |-> IF ok THEN "none" ELSE "UseAfterConsume", ret |-> ret]

\* history: the number of consuming operations that succeeded on a builder
Succeeded(kind, id) ==
    [successes EXCEPT ![<<kind, id>>] = @ + 1]

IdleReq ==
    [state |-> "idle", method |-> "none", path |-> << >>,
     params |-> EmptyObj, query |-> EmptyObj, body |-> NoFacet,
     s |-> NoId, i |-> 0, h |-> 0, up |-> << >>,
     trace |-> << >>, sent |-> << >>, errors |-> 0]

NoMarshal == [fn |-> "none", d |-> {}, raised |-> FALSE]

InitBuilders ==
    /\ variant \in Variants
    /\ routers = <<NewRouterObj(1, "new", NoId, 0)>>
    /\ leafs = << >>
    /\ stacks = << << >> >>
    /\ exported = {}
    /\ successes = [b \in {"Router", "LeafRouter"} \X (1..cap) |-> 0]
    /\ last = Outcome("new", "Router", 1, TRUE, 1)
    /\ app = NoId
    /\ req = IdleReq
    /\ marshalled = NoMarshal
    /\ parked = IdleReq

Init ==
    /\ cap = MaxBuilders
    /\ InitBuilders

\* new Router(): a Router on a fresh Express router
NewRouter ==
    /\ Room
    /\ stacks' = Append(stacks, << >>)
    /\ routers' = Append(routers, NewRouterObj(Len(stacks) + 1, "new", NoId, 0))
    /\ last' = Outcome("new", "Router", Len(routers) + 1, TRUE, Len(routers) + 1)
    /\ UNCHANGED <<variant, cap, leafs, exported, successes, app, req, marshalled, parked>>

\* a Router.then that registers its wrapper before it consumes
RouterThen_RegisterFirst(r, fn) ==
    /\ stacks' = Push(routers[r].router, ThenLayer(fn))
    /\ IF checkConsumed(routers[r])
       THEN /\ Room
            /\ routers' = Append([routers EXCEPT ![r] = consume(@)],
                                 NewRouterObj(routers[r].router, "then", r,
                                              Len(stacks[routers[r].router]) + 1))
            /\ successes' = Succeeded("Router", r)
            /\ last' = Outcome("then", "Router", r, TRUE, Len(routers) + 1)
            /\ UNCHANGED <<leafs, exported>>
       ELSE /\ last' = Outcome("then", "Router", r, FALSE, NoId)
            /\ UNCHANGED <<routers, leafs, exported, successes>>
    /\ UNCHANGED <<variant, cap, app, req, marshalled, parked>>

\* a Router.then that only checks, and leaves its receiver usable
RouterThen_KeepReceiver(r, fn) ==
    /\ IF checkConsumed(routers[r])
       THEN /\ Room
            /\ stacks' = Push(routers[r].router, ThenLayer(fn))
            /\ routers' = Append(routers,
                                 NewRouterObj(routers[r].router, "then", r,
                                              Len(stacks[routers[r].router]) + 1))
            /\ successes' = Succeeded("Router", r)
            /\ last' = Outcome("then", "Router", r, TRUE, Len(routers) + 1)
            /\ UNCHANGED <<leafs, exported>>
       ELSE /\ last' = Outcome("then", "Router", r, FALSE, NoId)
            /\ UNCHANGED <<routers, leafs, stacks, exported, successes>>
    /\ UNCHANGED <<variant, cap, app, req, marshalled, parked>>

\* Router.then(fn)
RouterThen(r, fn) ==
    /\ IF checkConsumed(routers[r])
       THEN /\ Room
            /\ stacks' = Push(routers[r].router, ThenLayer(fn))
            /\ routers' = Append([routers EXCEPT ![r] = consume(@)],
                                 NewRouterObj(routers[r].router, "then", r,
                                              Len(stacks[routers[r].router]) + 1))
            /\ successes' = Succeeded("Router", r)
            /\ last' = Outcome("then", "Router", r, TRUE, Len(routers) + 1)
            /\ UNCHANGED <<leafs, exported>>
       ELSE /\ last' = Outcome("then", "Router", r, FALSE, NoId)
            /\ UNCHANGED <<routers, leafs, stacks, exported, successes>>
    /\ UNCHANGED <<variant, cap, app, req, marshalled, parked>>

\* Router.toExpress()
RouterToExpress(r) ==
    /\ IF checkConsumed(routers[r])
       THEN /\ routers' = [routers EXCEPT ![r] = consume(@)]
            /\ exported' = exported \cup {routers[r].router}
            /\ successes' = Succeeded("Router", r)
            /\ last' = Outcome("toExpress", "Router", r, TRUE, routers[r].router)
            /\ UNCHANGED <<leafs, stacks>>
       ELSE /\ last' = Outcome("toExpress", "Router", r, FALSE, NoId)
            /\ UNCHANGED <<routers, leafs, stacks, exported, successes>>
    /\ UNCHANGED <<variant, cap, app, req, marshalled, parked>>

\* a use that hoists the delegation in front of the entries registered before
RouterUseRouter_MountFirst(r, p, d) ==
    /\ variant # "part_001"
    /\ checkConsumed(routers[r])
    /\ checkConsumed([routers EXCEPT ![r] = consume(@)][d])
    /\ Room
    /\ stacks' = [stacks EXCEPT ![routers[r].router] =
                      <<MountLayer(p, routers[d].router)>> \o @]
    /\ routers' = Append([routers EXCEPT ![r] = consume(@), ![d] = consume(@)],
                         NewRouterObj(routers[r].router, "use", r,
                                      Len(stacks[routers[r].router]) + 1))
    /\ successes' = [successes EXCEPT ![<<"Router", r>>] = @ + 1,
                                      ![<<"Router", d>>] = @ + 1]
    /\ last' = Outcome("use", "Router", r, TRUE, Len(routers) + 1)
    /\ UNCHANGED <<leafs, exported>>
    /\ UNCHANGED <<variant, cap, app, req, marshalled, parked>>

\* a use that registers the delegate's Express router without going through
\* the delegate's toExpress(), leaving the delegate usable
RouterUseRouter_KeepDelegate(r, p, d) ==
    /\ variant # "part_001"
    /\ IF ~checkConsumed(routers[r])
       THEN /\ last' = Outcome("use", "Router", r, FALSE, NoId)
            /\ UNCHANGED <<routers, leafs, stacks, exported, successes>>
       ELSE /\ Room
            /\ stacks' = Push(routers[r].router, MountLayer(p, routers[d].router))
            /\ routers' = Append([routers EXCEPT ![r] = consume(@)],
                                 NewRouterObj(routers[r].router, "use", r,
                                              Len(stacks[routers[r].router]) + 1))
            /\ successes' = Succeeded("Router", r)
            /\ last' = Outcome("use", "Router", r, TRUE, Len(routers) + 1)
            /\ UNCHANGED <<leafs, exported>>
    /\ UNCHANGED <<variant, cap, app, req, marshalled, parked>>

\* Router.use(usable) / Router.use(subpath, usable) with a Router delegate:
\* the receiver is consumed first, then the delegate's toExpress() runs and
\* may throw, and only then is the delegation registered.  The one-argument
\* form is the subpath << >>.  The legacy copy takes no Router.
RouterUseRouter(r, p, d) ==
    /\ variant # "part_001"
    /\ IF ~checkConsumed(routers[r])
       THEN /\ last' = Outcome("use", "Router", r, FALSE, NoId)
            /\ UNCHANGED <<routers, leafs, stacks, exported, successes>>
       ELSE LET mine == [routers EXCEPT ![r] = consume(@)] IN
            IF ~checkConsumed(mine[d])
            THEN /\ routers' = mine
                 /\ last' = Outcome("use", "Router", r, FALSE, NoId)
                 /\ UNCHANGED <<leafs, stacks, exported, successes>>
            ELSE /\ Room
                 /\ stacks' = Push(routers[r].router, MountLayer(p, routers[d].router))
                 /\ routers' = Append([mine EXCEPT ![d] = consume(@)],
                                      NewRouterObj(routers[r].router, "use", r,
                                                   Len(stacks[routers[r].router]) + 1))
                 /\ successes' = [successes EXCEPT ![<<"Router", r>>] = @ + 1,
                                                   ![<<"Router", d>>] = @ + 1]
                 /\ last' = Outcome("use", "Router", r, TRUE, Len(routers) + 1)
                 /\ UNCHANGED <<leafs, exported>>
    /\ UNCHANGED <<variant, cap, app, req, marshalled, parked>>

\* Router.use(usable) / Router.use(subpath, usable) with a raw middleware;
\* the legacy copy has the one-argument form only
RouterUseRaw(r, p, fn) ==
    /\ variant = "part_001" => p = << >>
    /\ IF checkConsumed(routers[r])
       THEN /\ Room
            /\ stacks' = Push(routers[r].router, RawLayer(p, fn))
            /\ routers' = Append([routers EXCEPT ![r] = consume(@)],
                                 NewRouterObj(routers[r].router, "use", r,
                                              Len(stacks[routers[r].router]) + 1))
            /\ successes' = Succeeded("Router", r)
            /\ last' = Outcome("use", "Router", r, TRUE, Len(routers) + 1)
            /\ UNCHANGED <<leafs, exported>>
       ELSE /\ last' = Outcome("use", "Router", r, FALSE, NoId)
            /\ UNCHANGED <<routers, leafs, stacks, exported, successes>>
    /\ UNCHANGED <<variant, cap, app, req, marshalled, parked>>

\* a method factory that consumes its Router
MethodFactory_Consuming(r, m, p) ==
    /\ IF checkConsumed(routers[r])
       THEN /\ Room
            /\ leafs' = Append(leafs, NewLeafObj(routers[r].router, m, p, << >>,
                                                 Len(leafs) + 1, r))
            /\ routers' = [routers EXCEPT ![r] = consume(@)]
            /\ last' = Outcome(m, "Router", r, TRUE, Len(leafs) + 1)
            /\ UNCHANGED <<stacks, exported, successes>>
       ELSE /\ last' = Outcome(m, "Router", r, FALSE, NoId)
            /\ UNCHANGED <<routers, leafs, stacks, exported, successes>>
    /\ UNCHANGED <<variant, cap, app, req, marshalled, parked>>

\* a method factory that never looks at the consumed flag
MethodFactory_Unchecked(r, m, p) ==
    /\ Room
    /\ leafs' = Append(leafs, NewLeafObj(routers[r].router, m, p, << >>,
                                         Len(leafs) + 1, r))
    /\ last' = Outcome(m, "Router", r, TRUE, Len(leafs) + 1)
    /\ UNCHANGED <<routers, stacks, exported, successes>>
    /\ UNCHANGED <<variant, cap, app, req, marshalled, parked>>

\* the body shared by Router.get / post / put / delete: checkConsumed only
MethodFactory(r, m, p) ==
    /\ IF checkConsumed(routers[r])
       THEN /\ Room
            /\ leafs' = Append(leafs, NewLeafObj(routers[r].router, m, p, << >>,
                                                 Len(leafs) + 1, r))
            /\ last' = Outcome(m, "Router", r, TRUE, Len(leafs) + 1)
            /\ UNCHANGED <<routers, stacks, exported, successes>>
       ELSE /\ last' = Outcome(m, "Router", r, FALSE, NoId)
            /\ UNCHANGED <<routers, leafs, stacks, exported, successes>>
    /\ UNCHANGED <<variant, cap, app, req, marshalled, parked>>

RouterGet(r, p) == MethodFactory(r, "get", p)

RouterPost(r, p) == MethodFactory(r, "post", p)

RouterPut(r, p) == MethodFactory(r, "put", p)

RouterDelete(r, p) == MethodFactory(r, "delete", p)

\* a LeafRouter.then that only checks, and leaves its receiver usable
LeafThen_NoConsume(l, fn) ==
    /\ IF checkConsumed(leafs[l])
       THEN /\ Room
            /\ leafs' = Append(leafs,
                               NewLeafObj(leafs[l].router, leafs[l].method, leafs[l].path,
                                          Append(leafs[l].handlers, fn),
                                          leafs[l].origin, leafs[l].from))
            /\ last' = Outcome("then", "LeafRouter", l, TRUE, Len(leafs) + 1)
            /\ UNCHANGED <<routers, stacks, exported, successes>>
       ELSE /\ last' = Outcome("then", "LeafRouter", l, FALSE, NoId)
            /\ UNCHANGED <<routers, leafs, stacks, exported, successes>>
    /\ UNCHANGED <<variant, cap, app, req, marshalled, parked>>

\* a LeafRouter.then that puts the new step in front of the chain
LeafThen_Prepend(l, fn) ==
    /\ IF checkConsumed(leafs[l])
       THEN /\ Room
            /\ leafs' = Append([leafs EXCEPT ![l] = consume(@)],
                               NewLeafObj(leafs[l].router, leafs[l].method, leafs[l].path,
                                          <<fn>> \o leafs[l].handlers,
                                          leafs[l].origin, leafs[l].from))
            /\ successes' = Succeeded("LeafRouter", l)
            /\ last' = Outcome("then", "LeafRouter", l, TRUE, Len(leafs) + 1)
            /\ UNCHANGED <<routers, stacks, exported>>
       ELSE /\ last' = Outcome("then", "LeafRouter", l, FALSE, NoId)
            /\ UNCHANGED <<routers, leafs, stacks, exported, successes>>
    /\ UNCHANGED <<variant, cap, app, req, marshalled, parked>>

\* a LeafRouter.then that registers its step on the Express router at once
LeafThen_Eager(l, fn) ==
    /\ IF checkConsumed(leafs[l])
       THEN /\ Room
            /\ stacks' = Push(leafs[l].router, ThenLayer(fn))
            /\ leafs' = Append([leafs EXCEPT ![l] = consume(@)],
                               NewLeafObj(leafs[l].router, leafs[l].method, leafs[l].path,
                                          Append(leafs[l].handlers, fn),
                                          leafs[l].origin, leafs[l].from))
            /\ successes' = Succeeded("LeafRouter", l)
            /\ last' = Outcome("then", "LeafRouter", l, TRUE, Len(leafs) + 1)
            /\ UNCHANGED <<routers, exported>>
       ELSE /\ last' = Outcome("then", "LeafRouter", l, FALSE, NoId)
            /\ UNCHANGED <<routers, leafs, stacks, exported, successes>>
    /\ UNCHANGED <<variant, cap, app, req, marshalled, parked>>

\* LeafRouter.then(fn)
LeafThen(l, fn) ==
    /\ IF checkConsumed(leafs[l])
       THEN /\ Room
            /\ leafs' = Append([leafs EXCEPT ![l] = consume(@)],
                               NewLeafObj(leafs[l].router, leafs[l].method, leafs[l].path,
                                          Append(leafs[l].handlers, fn),
                                          leafs[l].origin, leafs[l].from))
            /\ successes' = Succeeded("LeafRouter", l)
            /\ last' = Outcome("then", "LeafRouter", l, TRUE, Len(leafs) + 1)
            /\ UNCHANGED <<routers, stacks, exported>>
       ELSE /\ last' = Outcome("then", "LeafRouter", l, FALSE, NoId)
            /\ UNCHANGED <<routers, leafs, stacks, exported, successes>>
    /\ UNCHANGED <<variant, cap, app, req, marshalled, parked>>

\* the body shared by LeafRouter.return and LeafRouter.finish: consume, then
\* register path, ...handlers and the terminal wrapper on the Express router
Terminate(l, term, fn) ==
    /\ IF checkConsumed(leafs[l])
       THEN /\ leafs' = [leafs EXCEPT ![l] =
                            [consume(@) EXCEPT !.at = Len(stacks[leafs[l].router]) + 1]]
            /\ stacks' = Push(leafs[l].router,
                              RouteLayer(leafs[l].method, leafs[l].path,
                                         leafs[l].handlers, term, fn))
            /\ successes' = Succeeded("LeafRouter", l)
            /\ last' = Outcome(term, "LeafRouter", l, TRUE, NoId)
            /\ UNCHANGED <<routers, exported>>
       ELSE /\ last' = Outcome(term, "LeafRouter", l, FALSE, NoId)
            /\ UNCHANGED <<routers, leafs, stacks, exported, successes>>
    /\ UNCHANGED <<variant, cap, app, req, marshalled, parked>>

LeafReturn(l, fn) == Terminate(l, "return", fn)

LeafFinish(l, fn) == Terminate(l, "finish", fn)

Next ==
    \/ NewRouter
    \/ \E r \in RouterIds, fn \in UserFns : RouterThen(r, fn)
    \/ \E r \in RouterIds, p \in SubPaths, d \in RouterIds : RouterUseRouter(r, p, d)
    \/ \E r \in RouterIds, p \in SubPaths, fn \in RawFns : RouterUseRaw(r, p, fn)
    \/ \E r \in RouterIds, p \in RoutePaths : RouterGet(r, p)
    \/ \E r \in RouterIds, p \in RoutePaths : RouterPost(r, p)
    \/ \E r \in RouterIds, p \in RoutePaths : RouterPut(r, p)
    \/ \E r \in RouterIds, p \in RoutePaths : RouterDelete(r, p)
    \/ \E r \in RouterIds : RouterToExpress(r)
    \/ \E l \in LeafIds, fn \in UserFns : LeafThen(l, fn)
    \/ \E l \in LeafIds, fn \in TermFns : LeafReturn(l, fn)
    \/ \E l \in LeafIds, fn \in TermFns : LeafFinish(l, fn)

\* ---------------------------------------------------------- the marshallers

\* marshal(value, description) of the validation library: TRUE when it throws
MarshalThrows(v, d) == ~(v.def /\ \A k \in d : v[k] # Undefined)

\* the facet each copy of marshalParams / marshalQuery / marshalBody hands to
\* marshal: index.ts and the legacy copy read req.body in all three
FacetReadIn(v, fn, q) ==
    IF v = "part_000"
    THEN CASE fn = "marshalParams" -> q.params
           [] fn = "marshalQuery" -> q.query
           [] OTHER -> q.body
    ELSE q.body

FacetRead(fn, q) == FacetReadIn(variant, fn, q)

\* the step marshalX(d) applied to request q: TRUE when it throws
MarshalStep(fn, d, q) == MarshalThrows(FacetRead(fn, q), d)

\* ------------------------------------------------------- request handling

\* Express path matching: a route matches the whole remaining path, segment
\* by segment, a parameter segment matching anything; use matches a prefix
IsParam(seg) == seg = ":slug"

MatchRoute(pattern, path) ==
    /\ Len(pattern) = Len(path)
    /\ \A k \in 1..Len(pattern) : IsParam(pattern[k]) \/ pattern[k] = path[k]

MatchPrefix(prefix, path) ==
    /\ Len(prefix) <= Len(path)
    /\ \A k \in 1..Len(prefix) : prefix[k] = path[k]

\* req.params of a matched route
ParamsOf(pattern, path) ==
    IF \E k \in 1..Len(pattern) : IsParam(pattern[k])
    THEN SlugObj(path[CHOOSE k \in 1..Len(pattern) : IsParam(pattern[k])])
    ELSE EmptyObj

LayerMatches(layer, q) ==
    CASE layer.kind = "route" ->
             layer.method = q.method /\ MatchRoute(layer.path, q.path)
      [] layer.kind = "then" -> TRUE
      [] OTHER -> MatchPrefix(layer.path, q.path)

AtLayer == req.state = "running" /\ req.h = 0 /\ req.i <= Len(stacks[req.s])
Cur == stacks[req.s][req.i]

\* the ways function fn can behave on the request: a marshal step is decided
\* by the request, a user function by its author
BehavioursOf(fn) ==
    IF fn \in MarshalFns
    THEN IF MarshalStep(fn, SlugDesc, req) THEN {"throws"} ELSE {"returns"}
    ELSE Behaviours

\* where the request stands: the positions of the delegations it went
\* through, outermost first, and its position in the innermost router
WhereOf(q) == [k \in 1..Len(q.up) |-> q.up[k].i] \o <<q.i>>

Where == WhereOf(req)

\* one invocation of a registered handler for request q
CallOf(q, kind, fn, how, did) ==
    [s |-> q.s, i |-> q.i, h |-> q.h, kind |-> kind, fn |-> fn,
     how |-> how, did |-> did, at |-> WhereOf(q)]

Call(kind, fn, how, did) == CallOf(req, kind, fn, how, did)

\* the value req => req.params.slug returns
ReplyTo(q, fn) == q.params.slug

Reply(fn) == ReplyTo(req, fn)

\* index.ts README: app.use(mainRouter.toExpress()); app.listen(8080)
Listen(s) ==
    /\ app = NoId
    /\ s \in exported
    /\ app' = s
    /\ UNCHANGED <<variant, cap, routers, leafs, stacks, exported, successes, last,
                   req, marshalled, parked>>

\* a request arrives at the app and enters the mounted router
Dispatch(m, p, qy, b) ==
    /\ app # NoId
    /\ req.state = "idle"
    /\ req' = [IdleReq EXCEPT !.state = "running", !.method = m, !.path = p,
                              !.query = qy, !.body = b, !.s = app, !.i = 1]
    /\ UNCHANGED <<variant, cap, routers, leafs, stacks, exported, successes, last,
                   app, marshalled, parked>>

\* the engine passes over a layer the request does not match
SkipLayer ==
    /\ AtLayer
    /\ ~LayerMatches(Cur, req)
    /\ req' = [req EXCEPT !.i = @ + 1]
    /\ UNCHANGED <<variant, cap, routers, leafs, stacks, exported, successes, last,
                   app, marshalled, parked>>

\* the path a delegate mounted at prefix sees
Strip(prefix, path) == SubSeq(path, Len(prefix) + 1, Len(path))

\* the engine hands the request to a delegate Router mounted by use: the
\* delegate sees the path without the subpath and starts at its first entry
EnterMount ==
    /\ AtLayer
    /\ Cur.kind = "mount"
    /\ LayerMatches(Cur, req)
    /\ req' = [req EXCEPT !.up = Append(@, [s |-> req.s, i |-> req.i, path |-> req.path]),
                          !.s = Cur.sub, !.i = 1, !.path = Strip(Cur.path, req.path)]
    /\ UNCHANGED <<variant, cap, routers, leafs, stacks, exported, successes, last,
                   app, marshalled, parked>>

\* the request runs off the end of a delegate: the engine goes on in the
\* parent with the entry after the delegation
LeaveMount ==
    /\ req.state = "running"
    /\ req.h = 0
    /\ req.i > Len(stacks[req.s])
    /\ req.up # << >>
    /\ req' = [req EXCEPT !.up = SubSeq(@, 1, Len(@) - 1),
                          !.s = req.up[Len(req.up)].s,
                          !.i = req.up[Len(req.up)].i + 1,
                          !.path = req.up[Len(req.up)].path]
    /\ UNCHANGED <<variant, cap, routers, leafs, stacks, exported, successes, last,
                   app, marshalled, parked>>

\* the engine enters a matching route and sets req.params
EnterRoute ==
    /\ AtLayer
    /\ Cur.kind = "route"
    /\ LayerMatches(Cur, req)
    /\ req' = [req EXCEPT !.h = 1, !.params = ParamsOf(Cur.path, req.path)]
    /\ UNCHANGED <<variant, cap, routers, leafs, stacks, exported, successes, last,
                   app, marshalled, parked>>

\* the request after a wrapper called next()
Advanced(q) == IF q.h = 0 THEN [q EXCEPT !.i = @ + 1] ELSE [q EXCEPT !.h = @ + 1]

\* the request after next(err): no layer the builder registers handles
\* errors, so the error reaches the app's error middleware, once
Forwarded(q) == [q EXCEPT !.state = "errored", !.errors = @ + 1]

\* the wrapper registered by a then that advances after a failure of fn
Wrapper_SkipForward(kind, fn, how) ==
    Advanced([req EXCEPT !.trace = Append(@, Call(kind, fn, how, "next"))])

\* the wrapper Router.then and LeafRouter.then register:
\*   async (req, _res, next) => { [try {] await fn(req); next(); [} catch (e) { next(e); }] }
\* only the documented copy has the try / catch
WrapperIn(v, q, kind, fn, how) ==
    IF how = "returns"
    THEN Advanced([q EXCEPT !.trace = Append(@, CallOf(q, kind, fn, how, "next"))])
    ELSE IF v = "part_000"
         THEN Forwarded([q EXCEPT !.trace = Append(@, CallOf(q, kind, fn, how, "next(err)"))])
         ELSE [q EXCEPT !.trace = Append(@, CallOf(q, kind, fn, how, "none")),
                        !.state = "hung"]

WrapperOn(q, kind, fn, how) == WrapperIn(variant, q, kind, fn, how)

Wrapper(kind, fn, how) == WrapperOn(req, kind, fn, how)

\* the engine invokes the wrapper of a Router.then
InvokeThen(how) ==
    /\ AtLayer
    /\ Cur.kind = "then"
    /\ how \in BehavioursOf(Cur.fn)
    /\ req' = Wrapper("then", Cur.fn, how)
    /\ UNCHANGED <<variant, cap, routers, leafs, stacks, exported, successes, last,
                   app, marshalled, parked>>

\* a raw middleware handed to use, invoked for request q: it calls next(); a
\* synchronous throw is forwarded by the engine, a rejected promise is not
RawOn(q, fn, how) ==
    CASE how = "returns" ->
             Advanced([q EXCEPT !.trace = Append(@, CallOf(q, "raw", fn, how, "next"))])
      [] how = "throws" ->
             Forwarded([q EXCEPT !.trace = Append(@, CallOf(q, "raw", fn, how, "next(err)"))])
      [] OTHER ->
             [q EXCEPT !.trace = Append(@, CallOf(q, "raw", fn, how, "none")),
                       !.state = "hung"]

\* the engine invokes a raw middleware handed to use
InvokeRaw(how) ==
    /\ AtLayer
    /\ Cur.kind = "raw"
    /\ LayerMatches(Cur, req)
    /\ how \in Behaviours
    /\ req' = RawOn(req, Cur.fn, how)
    /\ UNCHANGED <<variant, cap, routers, leafs, stacks, exported, successes, last,
                   app, marshalled, parked>>

InRoute == req.state = "running" /\ req.h >= 1

\* the engine invokes the wrapper of the h-th LeafRouter.then of a route
InvokeStep(how) ==
    /\ InRoute
    /\ req.h <= Len(Cur.handlers)
    /\ how \in BehavioursOf(Cur.handlers[req.h])
    /\ req' = Wrapper("step", Cur.handlers[req.h], how)
    /\ UNCHANGED <<variant, cap, routers, leafs, stacks, exported, successes, last,
                   app, marshalled, parked>>

\* the wrapper LeafRouter.return registers:
\*   async (req, res[, next]) => { [try {] let reply = await fn(req); res.send(reply); [} catch (e) { next(e); }] }
ReturnWrapperIn(v, q, fn, how) ==
    IF how = "returns"
    THEN [q EXCEPT !.trace = Append(@, CallOf(q, "return", fn, how, "send")),
                   !.sent = Append(@, ReplyTo(q, fn)),
                   !.state = "responded"]
    ELSE IF v = "part_000"
         THEN Forwarded([q EXCEPT !.trace = Append(@, CallOf(q, "return", fn, how, "next(err)"))])
         ELSE [q EXCEPT !.trace = Append(@, CallOf(q, "return", fn, how, "none")),
                        !.state = "hung"]

ReturnWrapperOn(q, fn, how) == ReturnWrapperIn(variant, q, fn, how)

ReturnWrapper(fn, how) == ReturnWrapperOn(req, fn, how)

\* the engine invokes the terminal wrapper of a route ended with return
InvokeReturn(how) ==
    /\ InRoute
    /\ req.h = Len(Cur.handlers) + 1
    /\ Cur.term = "return"
    /\ how \in Behaviours
    /\ req' = ReturnWrapper(Cur.fn, how)
    /\ UNCHANGED <<variant, cap, routers, leafs, stacks, exported, successes, last,
                   app, marshalled, parked>>

\* the wrapper LeafRouter.finish registers; fn answers the request itself.
\*   documented copy: async (req, res, next) => { try { return await fn(req, res) } catch (e) { next(e); } }
\*   other copies:    (req, res) => fn(req, res)   -- a synchronous throw is
\*   forwarded by the engine, a rejected promise is ignored
FinishWrapperIn(v, q, fn, how) ==
    CASE how = "returns" ->
             [q EXCEPT !.trace = Append(@, CallOf(q, "finish", fn, how, "respond")),
                       !.state = "finished"]
      [] how = "throws" \/ v = "part_000" ->
             Forwarded([q EXCEPT !.trace = Append(@, CallOf(q, "finish", fn, how, "next(err)"))])
      [] OTHER ->
             [q EXCEPT !.trace = Append(@, CallOf(q, "finish", fn, how, "none")),
                       !.state = "hung"]

FinishWrapperOn(q, fn, how) == FinishWrapperIn(variant, q, fn, how)

FinishWrapper(fn, how) == FinishWrapperOn(req, fn, how)

\* the engine invokes the terminal wrapper of a route ended with finish
InvokeFinish(how) ==
    /\ InRoute
    /\ req.h = Len(Cur.handlers) + 1
    /\ Cur.term = "finish"
    /\ how \in Behaviours
    /\ req' = FinishWrapper(Cur.fn, how)
    /\ UNCHANGED <<variant, cap, routers, leafs, stacks, exported, successes, last,
                   app, marshalled, parked>>

\* the request runs off the end of the router: nothing answered it and no
\* error is pending, so the app's default handler takes it
ExitRouter ==
    /\ req.state = "running"
    /\ req.h = 0
    /\ req.i > Len(stacks[req.s])
    /\ req.up = << >>
    /\ req' = [req EXCEPT !.state = "notfound"]
    /\ UNCHANGED <<variant, cap, routers, leafs, stacks, exported, successes, last,
                   app, marshalled, parked>>

ServeFns == UserFns

ServeInit ==
    /\ cap = ServeBuilders
    /\ InitBuilders

\* the program builds its Router while the module loads and serves
\* afterwards; a builder operation that throws ends the program before it
\* serves anything
ServeOps ==
    \/ \E r \in RouterIds, fn \in ServeFns : RouterThen(r, fn)
    \/ \E r \in RouterIds, fn \in RawFns : RouterUseRaw(r, << >>, fn)
    \/ \E r \in RouterIds, p \in RoutePaths : RouterGet(r, p)
    \/ \E r \in RouterIds : RouterToExpress(r)
    \/ \E l \in LeafIds, fn \in ServeFns : LeafThen(l, fn)
    \/ \E l \in LeafIds, fn \in TermFns : LeafReturn(l, fn)
    \/ \E l \in LeafIds, fn \in TermFns : LeafFinish(l, fn)

ServeBuild ==
    /\ app = NoId
    /\ ServeOps
    /\ last'.err = "none"

ServeNext ==
    \/ ServeBuild
    \/ \E s \in exported : Listen(s)
    \/ \E m \in ReqMethods, p \in ReqPaths, qy \in ReqQueries, b \in ReqBodies :
           Dispatch(m, p, qy, b)
    \/ SkipLayer
    \/ EnterRoute
    \/ \E how \in Behaviours : InvokeThen(how)
    \/ \E how \in Behaviours : InvokeRaw(how)
    \/ \E how \in Behaviours : InvokeStep(how)
    \/ \E how \in Behaviours : InvokeReturn(how)
    \/ \E how \in Behaviours : InvokeFinish(how)
    \/ ExitRouter

SpecServe == ServeInit /\ [][ServeNext]_vars

\* the engine does not stall, and every function it invokes terminates, by
\* returning or by raising: whatever the engine can do next for the request
\* is eventually done
ServeFair ==
    /\ WF_vars(SkipLayer)
    /\ WF_vars(EnterRoute)
    /\ WF_vars(\E how \in Behaviours : InvokeThen(how))
    /\ WF_vars(\E how \in Behaviours : InvokeRaw(how))
    /\ WF_vars(\E how \in Behaviours : InvokeStep(how))
    /\ WF_vars(\E how \in Behaviours : InvokeReturn(how))
    /\ WF_vars(\E how \in Behaviours : InvokeFinish(how))
    /\ WF_vars(ExitRouter)

SpecServeLive == ServeInit /\ [][ServeNext]_vars /\ ServeFair

\* the example endpoint: get("/:slug").then(marshalParams(M.obj({ slug: M.str })))
\* .return(req => slug), compiled, mounted and sent requests with and
\* without a body
HelloBodies == {NoFacet, EmptyObj} \cup {SlugObj(v) : v \in Vals}

HelloInit ==
    /\ cap = HelloBuilders
    /\ InitBuilders

HelloOps ==
    \/ \E r \in RouterIds, p \in RoutePaths : RouterGet(r, p)
    \/ \E l \in LeafIds : LeafThen(l, "marshalParams")
    \/ \E l \in LeafIds, fn \in TermFns : LeafReturn(l, fn)
    \/ \E r \in RouterIds : RouterToExpress(r)

HelloBuild ==
    /\ app = NoId
    /\ HelloOps
    /\ last'.err = "none"

HelloNext ==
    \/ HelloBuild
    \/ \E s \in exported : Listen(s)
    \/ \E m \in ReqMethods, p \in ReqPaths, qy \in ReqQueries, b \in HelloBodies :
           Dispatch(m, p, qy, b)
    \/ SkipLayer
    \/ EnterRoute
    \/ \E how \in Behaviours : InvokeStep(how)
    \/ \E how \in Behaviours : InvokeReturn(how)
    \/ ExitRouter

SpecHello == HelloInit /\ [][HelloNext]_vars

\* a main Router that mounts other Routers with use, exported, mounted in
\* the app and sent one request
MountInit ==
    /\ cap = MountBuilders
    /\ InitBuilders

MountOps ==
    \/ NewRouter
    \/ \E r \in RouterIds : RouterThen(r, "f1")
    \/ \E r \in RouterIds, p \in SubPaths, d \in RouterIds : RouterUseRouter(r, p, d)
    \/ \E r \in RouterIds : RouterToExpress(r)

MountBuild ==
    /\ app = NoId
    /\ MountOps
    /\ last'.err = "none"

MountNext ==
    \/ MountBuild
    \/ \E s \in exported : Listen(s)
    \/ \E p \in MountPaths, qy \in ReqQueries, b \in ReqBodies : Dispatch("get", p, qy, b)
    \/ SkipLayer
    \/ EnterMount
    \/ LeaveMount
    \/ \E how \in Behaviours : InvokeThen(how)
    \/ ExitRouter

SpecMount == MountInit /\ [][MountNext]_vars

\* a switch that hands the resumed request the path parameters of the
\* request that was running
Switch_SharedParams ==
    /\ app # NoId
    /\ req # parked
    /\ req' = [parked EXCEPT !.params = req.params]
    /\ parked' = req
    /\ UNCHANGED <<variant, cap, routers, leafs, stacks, exported, successes, last,
                   app, marshalled>>

\* two requests in flight: while a wrapper of one awaits, or between two of
\* its handlers, the event loop goes on with the other request
Switch ==
    /\ app # NoId
    /\ req # parked
    /\ req' = parked
    /\ parked' = req
    /\ UNCHANGED <<variant, cap, routers, leafs, stacks, exported, successes, last,
                   app, marshalled>>

PairInit ==
    /\ cap = PairBuilders
    /\ InitBuilders

PairOps ==
    \/ \E r \in RouterIds : RouterThen(r, "f1")
    \/ \E r \in RouterIds, p \in RoutePaths : RouterGet(r, p)
    \/ \E l \in LeafIds : LeafThen(l, "f2")
    \/ \E l \in LeafIds, fn \in TermFns : LeafReturn(l, fn)
    \/ \E r \in RouterIds : RouterToExpress(r)

PairBuild ==
    /\ app = NoId
    /\ PairOps
    /\ last'.err = "none"

PairNext ==
    \/ PairBuild
    \/ \E s \in exported : Listen(s)
    \/ \E m \in ReqMethods, p \in ReqPaths, qy \in ReqQueries, b \in ReqBodies :
           Dispatch(m, p, qy, b)
    \/ Switch
    \/ SkipLayer
    \/ EnterRoute
    \/ \E how \in Behaviours : InvokeThen(how)
    \/ \E how \in Behaviours : InvokeStep(how)
    \/ \E how \in Behaviours : InvokeReturn(how)
    \/ ExitRouter

SpecPair == PairInit /\ [][PairNext]_vars

\* marshalParams(d), marshalQuery(d) or marshalBody(d) applied to a request
ApplyMarshal(fn, d) ==
    /\ marshalled.fn = "none"
    /\ marshalled' = [fn |-> fn, d |-> d, raised |-> MarshalStep(fn, d, req)]
    /\ UNCHANGED <<variant, cap, routers, leafs, stacks, exported, successes, last,
                   app, req, parked>>

MarshalInit ==
    /\ cap = MaxBuilders
    /\ variant \in Variants
    /\ routers = <<NewRouterObj(1, "new", NoId, 0)>>
    /\ leafs = << >>
    /\ stacks = << << >> >>
    /\ exported = {}
    /\ successes = [b \in {"Router", "LeafRouter"} \X (1..cap) |-> 0]
    /\ last = Outcome("new", "Router", 1, TRUE, 1)
    /\ app = NoId
    /\ marshalled = NoMarshal
    /\ parked = IdleReq
    /\ \E p \in {EmptyObj} \cup {SlugObj(v) : v \in Vals},
          qy \in {EmptyObj} \cup {SlugObj(v) : v \in Vals},
          b \in {NoFacet, EmptyObj} \cup {SlugObj(v) : v \in Vals} :
           req = [IdleReq EXCEPT !.params = p, !.query = qy, !.body = b]

MarshalNext == \E fn \in MarshalFns, d \in Descriptors : ApplyMarshal(fn, d)

SpecMarshal == MarshalInit /\ [][MarshalNext]_vars

\* ------------------------------- programs on the API all three copies have

\* the steps a program registers: a function of its own or a marshaller
CommonFns == {"f1"} \cup MarshalFns

CommonInit ==
    /\ cap = CommonBuilders
    /\ InitBuilders

\* Router.then, the method factories, toExpress and LeafRouter.then / return /
\* finish: the operations every copy of the builder has
CommonOps ==
    \/ \E r \in RouterIds : RouterThen(r, "f1")
    \/ \E r \in RouterIds, p \in RoutePaths : RouterGet(r, p)
    \/ \E r \in RouterIds : RouterToExpress(r)
    \/ \E l \in LeafIds, fn \in CommonFns : LeafThen(l, fn)
    \/ \E l \in LeafIds, fn \in TermFns : LeafReturn(l, fn)
    \/ \E l \in LeafIds, fn \in TermFns : LeafFinish(l, fn)

CommonBuild ==
    /\ app = NoId
    /\ CommonOps
    /\ last'.err = "none"

CommonNext ==
    \/ CommonBuild
    \/ \E s \in exported : Listen(s)
    \/ \E m \in ReqMethods, p \in ReqPaths, qy \in ReqQueries, b \in HelloBodies :
           Dispatch(m, p, qy, b)
    \/ SkipLayer
    \/ EnterRoute
    \/ \E how \in Behaviours : InvokeThen(how)
    \/ \E how \in Behaviours : InvokeStep(how)
    \/ \E how \in Behaviours : InvokeReturn(how)
    \/ \E how \in Behaviours : InvokeFinish(how)
    \/ ExitRouter

SpecCommon == CommonInit /\ [][CommonNext]_vars

\* ------------------------------------ programs that compose Routers only

ForestInit ==
    /\ cap = ForestBuilders
    /\ InitBuilders

\* the operations that make, consume and hand out Routers, failing calls
\* included: new Router(), then, use with any Router as delegate (the
\* receiver itself too), toExpress
ForestNext ==
    \/ NewRouter
    \/ \E r \in RouterIds : RouterThen(r, "f1")
    \/ \E r \in RouterIds, p \in SubPaths, d \in RouterIds : RouterUseRouter(r, p, d)
    \/ \E r \in RouterIds : RouterToExpress(r)

SpecForest == ForestInit /\ [][ForestNext]_vars

Spec == Init /\ [][Next]_vars

\* ------------------------------------------------- claims on the builder

RouterConsuming == {"use", "then", "toExpress"}
LeafConsuming == {"then", "return", "finish"}

IsConsuming(o) ==
    \/ o.kind = "Router" /\ o.op \in RouterConsuming
    \/ o.kind = "LeafRouter" /\ o.op \in LeafConsuming

\* C1: no builder ever has two successful consuming operations: a consuming
\* operation that succeeds on a builder is the first one to succeed on it,
\* and whatever does not succeed fails with the use-after-consume error.
C1_ConsumeOnce ==
    /\ \A b \in DOMAIN successes : successes[b] <= 1
    /\ (IsConsuming(last) /\ last.err = "none")
           => successes[<<last.kind, last.id>>] = 1
    /\ last.err \in {"none", "UseAfterConsume"}

\* a consuming operation has just failed on a builder that an earlier
\* consuming operation had succeeded on
C1_Witness ==
    /\ IsConsuming(last)
    /\ last.err = "UseAfterConsume"
    /\ successes[<<last.kind, last.id>>] = 1

\* C6: a successful get / post / put / delete leaves every Router as it was
\* (its receiver unconsumed), leaves every handler list as it was, and
\* appends one LeafRouter, unconsumed and with an empty step list, which it
\* returns.
C6_FactoryFrame ==
    [][(last'.op \in Method /\ last'.err = "none" /\ leafs' # leafs)
          => /\ routers' = routers
             /\ ~routers'[last'.id].consumed
             /\ stacks' = stacks
             /\ successes' = successes
             /\ leafs' = Append(leafs, leafs'[Len(leafs')])
             /\ last'.ret = Len(leafs')
             /\ ~leafs'[last'.ret].consumed
             /\ leafs'[last'.ret].handlers = << >>
             /\ leafs'[last'.ret].router = routers[last'.id].router]_vars

LeafsFrom(r) == {l \in LeafIds : leafs[l].from = r /\ leafs[l].origin = l}

\* after two method-factory calls on one Router, a consuming operation has
\* just succeeded on that Router
C6_Witness ==
    /\ last.kind = "Router"
    /\ last.op \in RouterConsuming
    /\ last.err = "none"
    /\ Cardinality(LeafsFrom(last.id)) >= 2

\* C7: a method factory called on a Router that a consuming operation has
\* succeeded on fails with the use-after-consume error and returns nothing;
\* every LeafRouter a factory has just returned comes from a Router on which
\* no consuming operation had succeeded.
C7_FactoryAfterConsume ==
    (last.kind = "Router" /\ last.op \in Method
        /\ successes[<<"Router", last.id>>] >= 1)
      => (last.err = "UseAfterConsume" /\ last.ret = NoId)

HasChild(r) == \E c \in RouterIds : routers[c].parent = r

Mounted(s) ==
    \E t \in 1..Len(stacks) : \E i \in 1..Len(stacks[t]) :
        stacks[t][i].kind = "mount" /\ stacks[t][i].sub = s

\* the Router was consumed by its own toExpress(): a consuming operation
\* succeeded on it, it returned no Router, and its stack was handed out
ConsumedByToExpress(r) ==
    /\ successes[<<"Router", r>>] = 1
    /\ ~HasChild(r)
    /\ routers[r].router \in exported
    /\ ~Mounted(routers[r].router)

\* a method factory has just failed on a Router consumed by toExpress
C7_Witness ==
    /\ last.kind = "Router"
    /\ last.op \in Method
    /\ last.err = "UseAfterConsume"
    /\ ConsumedByToExpress(last.id)

\* C8: a builder operation that fails with the use-after-consume error leaves
\* every handler list exactly as it was.
C8_FailureKeepsLists ==
    [][last'.err = "UseAfterConsume" => stacks' = stacks]_vars

\* Router.then has just failed on a Router already passed to toExpress, whose
\* handler list holds an entry
C8_Witness ==
    /\ last.kind = "Router"
    /\ last.op = "then"
    /\ last.err = "UseAfterConsume"
    /\ ConsumedByToExpress(last.id)
    /\ stacks[routers[last.id].router] # << >>

Lineage(o) == {l \in LeafIds : leafs[l].origin = o}
Terminals(o) == {l \in Lineage(o) : leafs[l].at # 0}

RECURSIVE CountRoutes(_)
CountRoutes(st) ==
    IF st = << >> THEN 0
    ELSE (IF Head(st).kind = "route" THEN 1 ELSE 0) + CountRoutes(Tail(st))

RECURSIVE SumRoutes(_)
SumRoutes(ss) == IF ss = << >> THEN 0 ELSE CountRoutes(Head(ss)) + SumRoutes(Tail(ss))

\* C9: every lineage has at most one member that wrote a terminal
\* registration, the handler lists hold exactly one terminal registration per
\* such member, and a then, return or finish that succeeds on a LeafRouter
\* finds its lineage not terminated before it.
C9_OneTerminalPerLineage ==
    /\ \A o \in LeafIds : Cardinality(Terminals(o)) <= 1
    /\ SumRoutes(stacks) = Cardinality({l \in LeafIds : leafs[l].at # 0})
    /\ (last.kind = "LeafRouter" /\ last.err = "none")
          => Terminals(leafs[last.id].origin)
                 = IF last.op = "then" THEN {} ELSE {last.id}

\* then, return or finish has just failed on a member of a lineage that is
\* terminated, the lineage having more than one member
C9_Witness ==
    /\ last.kind = "LeafRouter"
    /\ last.err = "UseAfterConsume"
    /\ Terminals(leafs[last.id].origin) # {}
    /\ Cardinality(Lineage(leafs[last.id].origin)) >= 2

\* ------------------------------------------------ claims on the requests

Trace == req.trace
Calls == 1..Len(Trace)
InRouteCall(c) == c.h >= 1
LayerOf(c) == stacks[c.s][c.i]

IsPrefix(a, b) == Len(a) <= Len(b) /\ SubSeq(b, 1, Len(a)) = a

\* the member of its lineage a LeafRouter was derived from by then
Pred(l) ==
    CHOOSE m \in LeafIds :
        /\ m < l
        /\ leafs[m].origin = leafs[l].origin
        /\ \A n \in LeafIds : (n < l /\ leafs[n].origin = leafs[l].origin) => n <= m

\* C2: the endpoint's chain is S1..Sn in the order of the then calls, and a
\* request inside the route invokes them in that order, each at most once:
\* whatever runs at position h was registered at position h, position 1
\* excepted it runs right after position h-1 succeeded, and after a failure
\* nothing further of the route runs.
C2_StepsInOrder ==
    /\ \A l \in LeafIds :
          IF leafs[l].origin = l
          THEN leafs[l].handlers = << >>
          ELSE /\ Len(leafs[l].handlers) = Len(leafs[Pred(l)].handlers) + 1
               /\ IsPrefix(leafs[Pred(l)].handlers, leafs[l].handlers)
    /\ \A l \in LeafIds :
          leafs[l].at # 0 =>
              stacks[leafs[l].router][leafs[l].at].handlers = leafs[l].handlers
    /\ \A k \in Calls :
          InRouteCall(Trace[k]) =>
              /\ Trace[k].h <= Len(LayerOf(Trace[k]).handlers) + 1
              /\ Trace[k].fn =
                     IF Trace[k].h <= Len(LayerOf(Trace[k]).handlers)
                     THEN LayerOf(Trace[k]).handlers[Trace[k].h]
                     ELSE LayerOf(Trace[k]).fn
              /\ (Trace[k].kind \in {"return", "finish"})
                     = (Trace[k].h = Len(LayerOf(Trace[k]).handlers) + 1)
              /\ Trace[k].h > 1 =>
                     /\ k > 1
                     /\ Trace[k - 1].s = Trace[k].s
                     /\ Trace[k - 1].i = Trace[k].i
                     /\ Trace[k - 1].h = Trace[k].h - 1
                     /\ Trace[k - 1].how = "returns"
              /\ \A j \in Calls :
                     (j # k /\ Trace[j].s = Trace[k].s /\ Trace[j].i = Trace[k].i)
                         => Trace[j].h # Trace[k].h
              /\ Trace[k].how # "returns" => k = Len(Trace)

\* a request ran the two distinct steps of an endpoint and then its terminal
\* function
C2_Witness ==
    \E k \in Calls :
        /\ Trace[k].kind \in {"return", "finish"}
        /\ Len(LayerOf(Trace[k]).handlers) = 2
        /\ LayerOf(Trace[k]).handlers[1] # LayerOf(Trace[k]).handlers[2]

\* C3 as claimed: whenever the wrapper of return(f) has run, either f
\* returned v and exactly one response, with body v, was sent and no error
\* delivered, or f raised and no response was sent and exactly one error was
\* delivered to the error channel.
C3_ReturnContract ==
    \A k \in Calls :
        Trace[k].kind = "return" =>
            IF Trace[k].how = "returns"
            THEN req.sent = <<req.params.slug>> /\ req.errors = 0
            ELSE req.sent = << >> /\ req.errors = 1

\* C4 as claimed: whenever the wrapper of a Router.then or LeafRouter.then
\* step has run, either the step succeeded and the wrapper called next(), or
\* the step raised and the wrapper called next(err), the error channel
\* holding exactly that one error.
C4_StepForwardsFailure ==
    \A k \in Calls :
        Trace[k].kind \in {"then", "step"} =>
            IF Trace[k].how = "returns"
            THEN Trace[k].did = "next"
            ELSE Trace[k].did = "next(err)" /\ req.errors = 1

\* the facet the claim assigns to each marshal step
OwnFacet(fn, q) ==
    CASE fn = "marshalParams" -> q.params
      [] fn = "marshalQuery" -> q.query
      [] OTHER -> q.body

\* C5 as claimed: a marshal step fails if and only if its own facet violates
\* the descriptor.
C5_MarshalOwnFacet ==
    marshalled.fn # "none" =>
        (marshalled.raised = MarshalThrows(OwnFacet(marshalled.fn, req), marshalled.d))

RECURSIVE Ancestors(_)
\* the Router and the Routers it was derived from through then and use
Ancestors(r) ==
    IF routers[r].parent = NoId THEN {r} ELSE {r} \cup Ancestors(routers[r].parent)

\* the LeafRouter that wrote the terminal registration at position i of stack s
EndpointAt(s, i) == {l \in LeafIds : leafs[l].router = s /\ leafs[l].at = i}

\* C10: when something of an endpoint runs for a request (one of its own
\* steps or its terminal function), every step given to a then that the
\* endpoint's Router comes from has run before for that request and has
\* succeeded; and after such a step has raised nothing further runs and
\* nothing has been answered.
C10_RouterStepFirst ==
    /\ \A k \in Calls :
          InRouteCall(Trace[k]) =>
              \A l \in EndpointAt(Trace[k].s, Trace[k].i) :
                  \A a \in Ancestors(leafs[l].from) :
                      routers[a].op = "then" =>
                          /\ stacks[routers[a].router][routers[a].pos].kind = "then"
                          /\ \E j \in 1..(k - 1) :
                                /\ Trace[j].s = routers[a].router
                                /\ Trace[j].i = routers[a].pos
                                /\ Trace[j].kind = "then"
                                /\ Trace[j].fn = stacks[routers[a].router][routers[a].pos].fn
                                /\ Trace[j].how = "returns"
    /\ \A k \in Calls :
          (Trace[k].kind = "then" /\ Trace[k].how # "returns") =>
              /\ k = Len(Trace)
              /\ req.sent = << >>
              /\ req.state \in {"errored", "hung"}

\* an endpoint with a step of its own, obtained from a Router returned by
\* then, has answered a request
C10_Witness ==
    \E k \in Calls :
        /\ Trace[k].kind = "return"
        /\ Trace[k].how = "returns"
        /\ LayerOf(Trace[k]).handlers # << >>
        /\ \E l \in EndpointAt(Trace[k].s, Trace[k].i) :
               routers[leafs[l].from].op = "then"

\* the handler list of the compiled example Router
HelloLayer == RouteLayer("get", <<":slug">>, <<"marshalParams">>, "return", "slugOf")

\* the example Router is mounted and has finished with a GET request for
\* slug "hello" without a body, its terminal function not having failed
HelloScenario ==
    /\ app # NoId
    /\ stacks[app] = <<HelloLayer>>
    /\ req.method = "get"
    /\ req.path = <<"hello">>
    /\ req.body = NoFacet
    /\ req.state \notin {"idle", "running"}
    /\ \A k \in Calls : Trace[k].kind = "return" => Trace[k].how = "returns"

\* C11 as claimed: in the example scenario the request gets exactly one
\* response, with body "hello", and the error channel gets nothing.
C11_HelloScenario ==
    HelloScenario =>
        /\ req.state = "responded"
        /\ req.sent = <<"hello">>
        /\ req.errors = 0

\* the kinds of entry each builder operation registers
EntryOf(op) ==
    CASE op = "then" -> {"then"}
      [] op = "use" -> {"mount", "raw"}
      [] op \in {"return", "finish"} -> {"route"}
      [] OTHER -> {}

\* C12: every step leaves each handler list unchanged or extends it by
\* exactly one entry at the end, the entry being of the kind the operation
\* registers (then a step, use a delegation, return / finish a terminal
\* registration); at most one list changes, and no list disappears.
C12_AppendOnly ==
    [][/\ Len(stacks') >= Len(stacks)
       /\ \A s \in 1..Len(stacks) :
              \/ stacks'[s] = stacks[s]
              \/ /\ stacks'[s] = Append(stacks[s], stacks'[s][Len(stacks'[s])])
                  /\ last'.err = "none"
                  /\ stacks'[s][Len(stacks'[s])].kind \in EntryOf(last'.op)
                  /\ \A u \in 1..Len(stacks) : u # s => stacks'[u] = stacks[u]]_vars

\* a terminal registration has just been appended to a handler list that
\* already held a step
C12_Witness ==
    /\ last.op \in {"return", "finish"}
    /\ last.err = "none"
    /\ \E s \in 1..Len(stacks) :
           /\ Len(stacks[s]) >= 2
           /\ stacks[s][1].kind = "then"
           /\ stacks[s][Len(stacks[s])].kind = "route"

\* position a comes before position b in the order the engine tries entries
Earlier(a, b) ==
    \E k \in 1..Len(a) :
        /\ k <= Len(b)
        /\ a[k] < b[k]
        /\ \A j \in 1..(k - 1) : a[j] = b[j]

RECURSIVE StackAt(_, _)
\* the Express router reached from router s through the delegations at the
\* positions given
StackAt(s, at) ==
    IF at = << >> THEN s ELSE StackAt(stacks[s][Head(at)].sub, Tail(at))

RECURSIVE Tried(_, _, _)
\* every entry of router s that a request for `path` matches has been
\* invoked, the entries of the delegates mounted in it included
Tried(s, pre, path) ==
    \A i \in 1..Len(stacks[s]) :
        CASE stacks[s][i].kind = "then" ->
                 \E k \in Calls : Trace[k].at = Append(pre, i)
          [] stacks[s][i].kind = "mount" /\ MatchPrefix(stacks[s][i].path, path) ->
                 Tried(stacks[s][i].sub, Append(pre, i), Strip(stacks[s][i].path, path))
          [] OTHER -> TRUE

\* C13: the entry a use registers stands at the position the list had
\* reached when use was called; a request invokes handlers in the order of
\* their positions, a delegate's handlers standing at the position of the
\* delegation and in their own order, each handler through the delegations
\* that lead to it; and a request that nothing answered and nothing failed has
\* tried every entry in that order, entries after a delegation included.
C13_UseKeepsPosition ==
    /\ \A r \in RouterIds :
          routers[r].op = "use" =>
              stacks[routers[r].router][routers[r].pos].kind \in {"mount", "raw"}
    /\ \A k \in Calls :
          /\ \A j \in 1..(Len(Trace[k].at) - 1) :
                 stacks[StackAt(app, SubSeq(Trace[k].at, 1, j - 1))][Trace[k].at[j]].kind
                     = "mount"
          /\ Trace[k].s = StackAt(app, SubSeq(Trace[k].at, 1, Len(Trace[k].at) - 1))
          /\ Trace[k].i = Trace[k].at[Len(Trace[k].at)]
          /\ k > 1 =>
                 \/ Earlier(Trace[k - 1].at, Trace[k].at)
                 \/ Trace[k - 1].at = Trace[k].at /\ Trace[k - 1].h < Trace[k].h
    /\ req.state = "notfound" => Tried(app, << >>, req.path)

\* a request went through a handler of a delegate mounted at a subpath and
\* afterwards through a handler the parent registered after the delegation
C13_Witness ==
    \E j, k \in Calls :
        /\ j < k
        /\ Len(Trace[j].at) = 2
        /\ Len(Trace[k].at) = 1
        /\ Trace[j].at[1] < Trace[k].at[1]
        /\ stacks[app][Trace[j].at[1]].path = <<"blog">>

\* the Express router was compiled: handed out by toExpress(), called by the
\* program or by use on a delegate
Compiled(s) == s \in exported \/ Mounted(s)

\* C14 as claimed: no successful builder operation changes a handler list
\* that was compiled before it.
C14_CompiledListFrozen ==
    [][last'.err = "none"
          => \A s \in 1..Len(stacks) : Compiled(s) => stacks'[s] = stacks[s]]_vars

\* C15 as claimed: a builder operation that fails leaves the consumed flag
\* of every builder as it was.
C15_FailureKeepsFlags ==
    [][last'.err # "none"
          => /\ \A r \in RouterIds : routers'[r].consumed = routers[r].consumed
             /\ \A l \in LeafIds : leafs'[l].consumed = leafs[l].consumed]_vars

\* the Router instances that hold Express router s
HandlesOf(s) == {r \in RouterIds : routers[r].router = s}
LiveHandlesOf(s) == {r \in HandlesOf(s) : ~routers[r].consumed}

\* C16: every handler list is held by at most one unconsumed Router, and a
\* use or then that has just succeeded returned a new unconsumed Router on the
\* handler list of its receiver, the receiver being consumed.
C16_SoleLiveHandle ==
    /\ \A s \in 1..Len(stacks) : Cardinality(LiveHandlesOf(s)) <= 1
    /\ (last.kind = "Router" /\ last.op \in {"use", "then"} /\ last.err = "none")
          => /\ last.ret \in RouterIds \ {last.id}
             /\ last.ret = Len(routers)
             /\ ~routers[last.ret].consumed
             /\ routers[last.ret].router = routers[last.id].router
             /\ routers[last.id].consumed
             /\ LiveHandlesOf(routers[last.id].router) = {last.ret}

\* a use has just succeeded on a Router that a then had returned: the
\* handler list has three handles, the newest one alone being unconsumed
C16_Witness ==
    /\ last.kind = "Router"
    /\ last.op = "use"
    /\ last.err = "none"
    /\ routers[last.id].op = "then"
    /\ Cardinality(HandlesOf(routers[last.id].router)) = 3
    /\ LiveHandlesOf(routers[last.id].router) = {last.ret}

\* the delegations that hand requests to Express router s
MountsOf(s) ==
    UNION {{<<t, i>> : i \in {j \in 1..Len(stacks[t]) :
                                  stacks[t][j].kind = "mount" /\ stacks[t][j].sub = s}} :
           t \in 1..Len(stacks)}

\* C17: a Router whose Express router a use has mounted is consumed, every
\* operation on it (use, then, toExpress, get, post, put, delete) fails with
\* the use-after-consume error and returns nothing, and no Express router
\* is mounted twice.
C17_UseConsumesDelegate ==
    /\ \A s \in 1..Len(stacks) :
          Mounted(s) => /\ \A r \in HandlesOf(s) : routers[r].consumed
                        /\ Cardinality(MountsOf(s)) = 1
    /\ (last.kind = "Router" /\ last.op # "new" /\ Mounted(routers[last.id].router))
          => (last.err = "UseAfterConsume" /\ last.ret = NoId)

\* a method factory or toExpress has just failed on a Router that a use with
\* a subpath mounted as its delegate
C17_Witness ==
    /\ last.kind = "Router"
    /\ last.op \in Method \cup {"toExpress"}
    /\ last.err = "UseAfterConsume"
    /\ \E m \in MountsOf(routers[last.id].router) :
           stacks[m[1]][m[2]].path = <<"blog">>

\* C18: a successful LeafRouter.then(fn) on LeafRouter l leaves every handler
\* list as it was, leaves the step list of l and of every other LeafRouter as
\* it was, and returns one new LeafRouter whose step list is that of l with
\* fn appended at the end.
C18_LeafThenFrame ==
    [][\A l \in LeafIds, fn \in UserFns :
          (LeafThen(l, fn) /\ last'.err = "none")
              => /\ stacks' = stacks
                 /\ Len(leafs') = Len(leafs) + 1
                 /\ \A m \in LeafIds : leafs'[m].handlers = leafs[m].handlers
                 /\ last'.ret = Len(leafs')
                 /\ leafs'[last'.ret].handlers = Append(leafs[l].handlers, fn)]_vars

\* then has just succeeded on a LeafRouter that already held a step, and
\* returned a LeafRouter with two distinct steps
C18_Witness ==
    /\ last.kind = "LeafRouter"
    /\ last.op = "then"
    /\ last.err = "none"
    /\ Len(leafs[last.id].handlers) = 1
    /\ Len(leafs[last.ret].handlers) = 2
    /\ leafs[last.ret].handlers[1] # leafs[last.ret].handlers[2]

\* the request is inside an endpoint terminated with return
InReturnEndpoint == InRoute /\ Cur.term = "return"

\* the request got a response from the return wrapper, or its error was
\* delivered to the error channel
Settled == req.state \in {"responded", "errored"}

\* C19 as claimed: a request dispatched to an endpoint terminated with
\* return, all of whose functions terminate, eventually gets a response or
\* has an error delivered to the error channel.
C19_RequestSettles == InReturnEndpoint ~> Settled

\* ---------------------------------------- a request processed on its own

\* the request as it arrived
Fresh(q) ==
    [IdleReq EXCEPT !.state = "running", !.method = q.method,
                    !.path = IF q.up = << >> THEN q.path ELSE q.up[1].path,
                    !.query = q.query, !.body = q.body, !.s = app, !.i = 1]

\* the engine is about to invoke a handler for q
NeedsCall(q) ==
    /\ q.state = "running"
    /\ \/ q.h >= 1
       \/ /\ q.i <= Len(stacks[q.s])
          /\ stacks[q.s][q.i].kind \in {"then", "raw"}
          /\ LayerMatches(stacks[q.s][q.i], q)

RECURSIVE Pass(_)
\* the engine's own moves for q up to the next handler: entries that do not
\* match are passed over, routes and delegates that match are entered
Pass(q) ==
    IF q.state # "running" \/ NeedsCall(q) THEN q
    ELSE IF q.i > Len(stacks[q.s])
    THEN IF q.up = << >>
         THEN [q EXCEPT !.state = "notfound"]
         ELSE Pass([q EXCEPT !.up = SubSeq(@, 1, Len(@) - 1),
                             !.s = q.up[Len(q.up)].s,
                             !.i = q.up[Len(q.up)].i + 1,
                             !.path = q.up[Len(q.up)].path])
    ELSE IF ~LayerMatches(stacks[q.s][q.i], q)
    THEN Pass([q EXCEPT !.i = @ + 1])
    ELSE IF stacks[q.s][q.i].kind = "route"
    THEN [q EXCEPT !.h = 1, !.params = ParamsOf(stacks[q.s][q.i].path, q.path)]
    ELSE Pass([q EXCEPT !.up = Append(@, [s |-> q.s, i |-> q.i, path |-> q.path]),
                        !.s = stacks[q.s][q.i].sub, !.i = 1,
                        !.path = Strip(stacks[q.s][q.i].path, q.path)])

\* the handler q stands before is invoked and behaves as `how` says
Invoked(q, how) ==
    IF q.h = 0
    THEN IF stacks[q.s][q.i].kind = "then"
         THEN WrapperOn(q, "then", stacks[q.s][q.i].fn, how)
         ELSE RawOn(q, stacks[q.s][q.i].fn, how)
    ELSE IF q.h <= Len(stacks[q.s][q.i].handlers)
    THEN WrapperOn(q, "step", stacks[q.s][q.i].handlers[q.h], how)
    ELSE IF stacks[q.s][q.i].term = "return"
    THEN ReturnWrapperOn(q, stacks[q.s][q.i].fn, how)
    ELSE FinishWrapperOn(q, stacks[q.s][q.i].fn, how)

RECURSIVE Alone(_, _)
\* request q processed with no other request in flight, its functions
\* behaving as `hows` says, one after the other
Alone(q, hows) ==
    IF hows = << >> \/ ~NeedsCall(Pass(q))
    THEN Pass(q)
    ELSE Alone(Invoked(Pass(q), Head(hows)), Tail(hows))

\* how the functions invoked for q behaved
HowsOf(q) == [k \in 1..Len(q.trace) |-> q.trace[k].how]

\* q is where it would be had it been processed alone with its functions
\* behaving the same way: same handlers invoked in the same order, same
\* response, same errors
SameAsAlone(q) == q.state = "idle" \/ Pass(q) = Alone(Fresh(q), HowsOf(q))

\* the handlers invoked for q were invoked in the order of registration
InOrder(q) ==
    \A k \in 2..Len(q.trace) :
        \/ Earlier(q.trace[k - 1].at, q.trace[k].at)
        \/ q.trace[k - 1].at = q.trace[k].at /\ q.trace[k - 1].h < q.trace[k].h

HowIn(v, fn, q, how) ==
    IF fn \in MarshalFns
    THEN IF MarshalThrows(FacetReadIn(v, fn, q), SlugDesc) THEN "throws" ELSE "returns"
    ELSE how

\* the handler q stands before is invoked by the wrapper copy v registers
InvokedIn(v, q, how) ==
    IF q.h = 0
    THEN IF stacks[q.s][q.i].kind = "then"
         THEN WrapperIn(v, q, "then", stacks[q.s][q.i].fn,
                        HowIn(v, stacks[q.s][q.i].fn, q, how))
         ELSE RawOn(q, stacks[q.s][q.i].fn, how)
    ELSE IF q.h <= Len(stacks[q.s][q.i].handlers)
    THEN WrapperIn(v, q, "step", stacks[q.s][q.i].handlers[q.h],
                   HowIn(v, stacks[q.s][q.i].handlers[q.h], q, how))
    ELSE IF stacks[q.s][q.i].term = "return"
    THEN ReturnWrapperIn(v, q, stacks[q.s][q.i].fn, how)
    ELSE FinishWrapperIn(v, q, stacks[q.s][q.i].fn, how)

RECURSIVE AloneIn(_, _, _)
\* request q processed by the handlers copy v registers for the same builder
\* operations, the functions behaving as `hows` says, one after the other
AloneIn(v, q, hows) ==
    IF hows = << >> \/ ~NeedsCall(Pass(q))
    THEN Pass(q)
    ELSE AloneIn(v, InvokedIn(v, Pass(q), Head(hows)), Tail(hows))

\* what can be observed of the handling of q: the steps invoked, in order,
\* the response sent, the errors delivered to the error channel
Observed(q) ==
    [steps |-> [k \in 1..Len(q.trace) |->
                   [fn |-> q.trace[k].fn, at |-> q.trace[k].at, h |-> q.trace[k].h]],
     sent |-> q.sent,
     errors |-> q.errors]

\* C21: the three copies are observably equivalent on their common API: for
\* the builder operations and the request of this run, each copy, its user
\* functions behaving as they did here, invokes the same steps in the same
\* order, sends the same response and delivers the same errors.
C21_VariantsAgree ==
    req.state # "idle" =>
        \A v \in Variants :
            Observed(AloneIn(v, Fresh(req), HowsOf(req))) = Observed(req)

\* ------------------------------------------------ the delegation graph

\* the handler lists that list s delegates to
DelegatesOf(s) ==
    {stacks[s][i].sub : i \in {j \in 1..Len(stacks[s]) : stacks[s][j].kind = "mount"}}

RECURSIVE Closure(_, _)
\* the handler lists reached from the lists S in at most n more delegations
Closure(S, n) ==
    IF n = 0 THEN S ELSE Closure(S \cup UNION {DelegatesOf(t) : t \in S}, n - 1)

\* the handler lists a request entering list s can be handed to
ReachableFrom(s) == Closure(DelegatesOf(s), Len(stacks))

====
